---- MODULE Spec2Model ----
(***************************************************************************)
(* Terraform job service and execution engine of terraform-ai-backend.     *)
(*                                                                         *)
(* State: the terraform_jobs table, the job working directories under      *)
(* TERRAFORM_WORK_DIR, and the request threads that serve the service      *)
(* operations, each with its own database session.  Every request thread   *)
(* works on its session's copy of the job and writes the attributes it     *)
(* assigned at db.commit(); commits of different sessions interleave.      *)
(*                                                                         *)
(* A handler is cut into steps at its database commits, its file system    *)
(* operations and the start and end of its subprocesses; what a thread     *)
(* does on its own objects between two of these belongs to the step that   *)
(* follows.                                                                *)
(*                                                                         *)
(* Text is modelled as a sequence of tokens, concatenation as \o; a NULL   *)
(* Text column is the empty sequence.                                      *)
(***************************************************************************)
EXTENDS Integers, Sequences, FiniteSets, TLC

\* ---- bounds ------------------------------------------------------------
MaxJobs == 2
NumThreads == 2
MaxCalls == 2
MaxEdits == 3
MaxConfigs == 2

Threads == 1..NumThreads
JobIds == 1..MaxJobs

\* ---- JobStatus ---------------------------------------------------------
PENDING == "pending"
RUNNING == "running"
COMPLETED == "completed"
FAILED == "failed"
CANCELLED == "cancelled"
JobStatus == {PENDING, RUNNING, COMPLETED, FAILED, CANCELLED}
Terminal == {COMPLETED, FAILED, CANCELLED}

\* ---- values ------------------------------------------------------------
None == -1
NullTime == "null"
utcnow == "utcnow"
NullText == << >>
Unset == "unset"
UnsetText == <<"unset">>
NoFile == "nofile"

\* job_name is a sequence of characters.
Demo == <<"d", "e", "m", "o">>

\* The requests POST /terraform/jobs receives: the customer of the token and
\* the body.
CreateRequests ==
    { [customer |-> 1, job_name |-> Demo,  command |-> "plan",    code |-> "tf"],
      [customer |-> 1, job_name |-> Demo,  command |-> "apply",   code |-> "tf"],
      [customer |-> 2, job_name |-> Demo,  command |-> "destroy", code |-> "tf"],
      [customer |-> 2, job_name |-> Demo,  command |-> "bogus",   code |-> "tf"],
      [customer |-> 1, job_name |-> Demo,  command |-> "plan",    code |-> ""],
      [customer |-> 2, job_name |-> << >>, command |-> "plan",    code |-> "tf"] }

\* The requests POST /terraform/apply receives.
ApplyRequests ==
    { [customer |-> 1, job_name |-> Demo,  command |-> "apply",   code |-> "tf"],
      [customer |-> 1, job_name |-> Demo,  command |-> "apply",   code |-> ""],
      [customer |-> 2, job_name |-> << >>, command |-> "plan",    code |-> "tf"] }

\* Bodies of update_terraform_job: a field left out is Unset.
UpdateBodies ==
    [status : JobStatus, output_log : {UnsetText}, error_log : {UnsetText}]
      \cup [status : {Unset}, output_log : {<<"edited">>}, error_log : {<<"edited">>}]

\* ---- the job directories -----------------------------------------------
TERRAFORM_WORK_DIR == "/tmp/terraform_jobs"

\* Faulty variant: the directory does not depend on the job.
job_dir_Shared(j) == <<TERRAFORM_WORK_DIR, "job_">>

\* Line 36: Path(TERRAFORM_WORK_DIR) / f"job_{job.id}"
job_dir(j) == <<TERRAFORM_WORK_DIR, "job_", j>>

Paths == {job_dir(j) : j \in JobIds}

VARIABLES
    db,        \* terraform_jobs: job id -> row, for the rows that exist
    nextId,    \* next primary key
    dirs,      \* the job directories that exist
    files,     \* job directory -> content of its main.tf
    pc,        \* thread -> position in its handler
    sess,      \* thread -> the job object of its session
    proc,      \* thread -> the subprocess it is waiting for
    response,  \* what the last step told its caller: an answer, or "accepted"
               \* when the call passed its tests and the handler goes on
    calls,     \* number of requests made so far
    cancelled_from, \* history: job id -> the status its last committed cancel
                    \* had read ("none" when no cancel was committed)
    model_configs,  \* model_configs: config id -> row, for the rows that exist
    nextConfigId    \* next primary key of model_configs

vars == <<db, nextId, dirs, files, pc, sess, proc, response, calls, cancelled_from,
          model_configs, nextConfigId>>

NoSess == [job |-> 0]
NoProc == [stage |-> "none"]
NoAnswer == [op |-> "none"]

Init ==
    /\ db = << >>
    /\ nextId = 1
    /\ dirs = {}
    /\ files = [p \in Paths |-> NoFile]
    /\ pc = [t \in Threads |-> "idle"]
    /\ sess = [t \in Threads |-> NoSess]
    /\ proc = [t \in Threads |-> NoProc]
    /\ response = NoAnswer
    /\ calls = 0
    /\ cancelled_from = [j \in JobIds |-> "none"]
    /\ model_configs = << >>
    /\ nextConfigId = 1

Exists(j) == j \in DOMAIN db

Answer(op, j, kind, st) == [op |-> op, job |-> j, kind |-> kind, status |-> st]

\* ---- TerraformJobBase: pydantic validation of the request body ---------
TerraformJobBase(body) == Len(body.job_name) >= 1 /\ Len(body.job_name) <= 200

\* ---- create_terraform_job ----------------------------------------------
\* created_at (default=datetime.utcnow) is the time of the insert: the rows
\* are inserted one after the other, so it grows with the primary key.
NewJob(customer_id, body) ==
    [owner |-> customer_id,
     job_name |-> body.job_name,
     terraform_config |-> [code |-> body.code],
     command |-> body.command,
     status |-> PENDING,
     output_log |-> NullText,
     error_log |-> NullText,
     started_at |-> NullTime,
     completed_at |-> NullTime,
     created_at |-> nextId]

create_terraform_job(customer_id, body) ==
    /\ nextId <= MaxJobs
    /\ IF TerraformJobBase(body)
       THEN /\ db' = [j \in DOMAIN db \cup {nextId} |->
                        IF j = nextId THEN NewJob(customer_id, body) ELSE db[j]]
            /\ nextId' = nextId + 1
            /\ response' = Answer("create", nextId, "created", PENDING)
       ELSE /\ response' = Answer("create", 0, "ValidationError", "none")
            /\ UNCHANGED <<db, nextId>>
    /\ UNCHANGED <<dirs, files, pc, sess, proc>>

\* ---- get_terraform_job -------------------------------------------------
\* `if customer_id:` filters by owner only for a truthy customer_id.
Truthy(customer_id) == customer_id # None /\ customer_id # 0

get_terraform_job(j, customer_id) ==
    Exists(j) /\ (Truthy(customer_id) => db[j].owner = customer_id)

\* ---- get_user_terraform_jobs, get_all_terraform_jobs -------------------
\* Lines 278-281: the jobs the query of get_user_terraform_jobs selects,
\* before order_by, offset and limit; status_filter is "none" when left out.
get_user_terraform_jobs_query(customer_id, status_filter) ==
    {j \in DOMAIN db :
        /\ db[j].owner = customer_id
        /\ status_filter # "none" => db[j].status = status_filter}

\* Line 302: the jobs the query of get_all_terraform_jobs selects.
get_all_terraform_jobs_query == DOMAIN db

\* Faulty variant: order_by(TerraformJob.created_at), oldest first.
RECURSIVE order_by_created_at_asc(_)
order_by_created_at_asc(rows) ==
    IF rows = {} THEN << >>
    ELSE LET first == CHOOSE j \in rows :
                         \A k \in rows : db[j].created_at <= db[k].created_at
         IN <<first>> \o order_by_created_at_asc(rows \ {first})

\* order_by(TerraformJob.created_at.desc())
RECURSIVE order_by_created_at_desc(_)
order_by_created_at_desc(rows) ==
    IF rows = {} THEN << >>
    ELSE LET first == CHOOSE j \in rows :
                         \A k \in rows : db[j].created_at >= db[k].created_at
         IN <<first>> \o order_by_created_at_desc(rows \ {first})

\* .offset(skip).limit(limit)
offset_limit(rows, skip, limit) ==
    LET last == IF skip + limit < Len(rows) THEN skip + limit ELSE Len(rows)
    IN SubSeq(rows, skip + 1, last)

\* Line 283.
get_user_terraform_jobs(customer_id, skip, limit, status_filter) ==
    offset_limit(
       order_by_created_at_desc(get_user_terraform_jobs_query(customer_id, status_filter)),
       skip, limit)

\* Line 302.
get_all_terraform_jobs(skip, limit) ==
    offset_limit(order_by_created_at_desc(get_all_terraform_jobs_query), skip, limit)

\* ---- execute_terraform_job ---------------------------------------------
\* The session's job object: the attributes loaded by the query and the
\* attributes assigned since the last commit (Unset when not assigned).
\* `read` is the status the handler's test saw, `out` the local output_log,
\* `result` what the last _run_terraform_command returned, `route` the route
\* handler that called execute_terraform_job.
NoResult == [returncode |-> None, stdout |-> << >>, stderr |-> << >>]

Load(j) ==
    [job |-> j,
     read |-> db[j].status,
     code |-> db[j].terraform_config.code,
     command |-> db[j].command,
     status |-> Unset,
     output_log |-> UnsetText,
     error_log |-> UnsetText,
     out |-> NullText,
     result |-> NoResult,
     route |-> "execute"]

\* Faulty variant: a FAILED job may be executed again.
CanExecute_RetryFailed(st) == st \in {PENDING, FAILED}

\* Line 320: `if job.status != JobStatus.PENDING` raises the 400.
CanExecute(st) == st = PENDING

execute_terraform_job(t, j) ==
    /\ IF ~get_terraform_job(j, None)
       THEN /\ response' = Answer("execute", j, "NotFound", "none")
            /\ pc' = [pc EXCEPT ![t] = "idle"]
            /\ sess' = [sess EXCEPT ![t] = NoSess]
       ELSE IF ~CanExecute(db[j].status)
       THEN /\ response' = Answer("execute", j, "InvalidState", db[j].status)
            /\ pc' = [pc EXCEPT ![t] = "idle"]
            /\ sess' = [sess EXCEPT ![t] = NoSess]
       ELSE /\ pc' = [pc EXCEPT ![t] = "prepare"]
            /\ sess' = [sess EXCEPT ![t] =
                          [Load(j) EXCEPT !.route = IF pc[t] = "apply_execute"
                                                    THEN "apply" ELSE "execute"]]
            /\ response' = Answer("execute", j, "accepted", db[j].status)
    /\ UNCHANGED <<db, nextId, dirs, files, proc>>

\* ---- POST /terraform/apply: apply_terraform ----------------------------
\* Line 106: create_terraform_job commits the new job.
apply_terraform(t, customer_id, body) ==
    /\ nextId <= MaxJobs
    /\ IF TerraformJobBase(body)
       THEN /\ db' = [j \in DOMAIN db \cup {nextId} |->
                        IF j = nextId THEN NewJob(customer_id, body) ELSE db[j]]
            /\ nextId' = nextId + 1
            /\ pc' = [pc EXCEPT ![t] = "apply_execute"]
            /\ sess' = [sess EXCEPT ![t] = [job |-> nextId]]
            /\ response' = Answer("apply", nextId, "accepted", PENDING)
       ELSE /\ response' = Answer("apply", 0, "ValidationError", "none")
            /\ UNCHANGED <<db, nextId, pc, sess>>
    /\ UNCHANGED <<dirs, files, proc>>

\* Line 108: execute_terraform_job(db, job.id)
apply_terraform_execute(t) ==
    /\ pc[t] = "apply_execute"
    /\ execute_terraform_job(t, sess[t].job)

\* ---- execute_terraform_command -----------------------------------------
NoCodeMsg == <<"No Terraform code found in job configuration">>
MkdirErr == <<"OSError: mkdir">>
WriteErr == <<"OSError: write_text">>

\* except Exception as e: job.status = FAILED; job.error_log = str(e)
Except(s, msg) == [s EXCEPT !.status = FAILED, !.error_log = msg]

\* Faulty variant: the code is not looked at.
HasCode_Unchecked(terraform_code) == TRUE

\* Line 43: `if not terraform_code` raises the ValueError.
HasCode(terraform_code) == terraform_code # ""

\* Lines 36-46: make the job directory, read the code, write main.tf.
\* mkdir(parents=True, exist_ok=True) has nothing to do, and cannot fail,
\* when the directory is there.
execute_terraform_command_prepare(t) ==
    /\ pc[t] = "prepare"
    /\ LET j == sess[t].job IN
       \E fault \in {"none", "mkdir", "write"} :
          IF fault = "mkdir"
          THEN /\ job_dir(j) \notin dirs
               /\ sess' = [sess EXCEPT ![t] = Except(@, MkdirErr)]
               /\ pc' = [pc EXCEPT ![t] = "finally"]
               /\ UNCHANGED <<dirs, files>>
          ELSE IF ~HasCode(sess[t].code)
          THEN /\ fault = "none"
               /\ dirs' = dirs \cup {job_dir(j)}
               /\ sess' = [sess EXCEPT ![t] = Except(@, NoCodeMsg)]
               /\ pc' = [pc EXCEPT ![t] = "finally"]
               /\ UNCHANGED files
          ELSE IF fault = "write"
          THEN /\ dirs' = dirs \cup {job_dir(j)}
               /\ sess' = [sess EXCEPT ![t] = Except(@, WriteErr)]
               /\ pc' = [pc EXCEPT ![t] = "finally"]
               /\ UNCHANGED files
          ELSE /\ dirs' = dirs \cup {job_dir(j)}
               /\ files' = [files EXCEPT ![job_dir(j)] = sess[t].code]
               /\ pc' = [pc EXCEPT ![t] = "commit_running"]
               /\ UNCHANGED sess
    /\ response' = NoAnswer
    /\ UNCHANGED <<db, nextId, proc>>

\* db.commit(): UPDATE terraform_jobs SET <assigned attributes> WHERE id = j.
Commit(row, s, started, completed) ==
    [row EXCEPT
       !.status = IF s.status = Unset THEN @ ELSE s.status,
       !.output_log = IF s.output_log = UnsetText THEN @ ELSE s.output_log,
       !.error_log = IF s.error_log = UnsetText THEN @ ELSE s.error_log,
       !.started_at = IF started THEN utcnow ELSE @,
       !.completed_at = IF completed THEN utcnow ELSE @]

\* A commit whose UPDATE matches no row raises; the error leaves the handler
\* through the finally block before the clean-up, and the caller gets a 500.
Crash(t, op) ==
    /\ pc' = [pc EXCEPT ![t] = "idle"]
    /\ sess' = [sess EXCEPT ![t] = NoSess]
    /\ response' = Answer(op, sess[t].job, "ServerError", "none")
    /\ UNCHANGED db

\* Lines 49-51: job.status = RUNNING; job.started_at = utcnow(); db.commit()
execute_terraform_command_running(t) ==
    /\ pc[t] = "commit_running"
    /\ LET j == sess[t].job IN
       IF Exists(j)
       THEN /\ db' = [db EXCEPT ![j] =
                        Commit(@, [sess[t] EXCEPT !.status = RUNNING], TRUE, FALSE)]
            /\ pc' = [pc EXCEPT ![t] = "init"]
            /\ response' = NoAnswer
            /\ UNCHANGED sess
       ELSE Crash(t, "execute")
    /\ UNCHANGED <<nextId, dirs, files, proc>>

\* ---- _run_terraform_command --------------------------------------------
Argv(command, auto_approve) ==
    <<"terraform", command>>
      \o (IF auto_approve /\ command \in {"apply", "destroy"}
          THEN <<"-auto-approve">> ELSE << >>)
      \o <<"-no-color">>

Stdout(command) == <<"stdout", command>>
Stderr(command) == <<"stderr", command>>
TimeoutMsg == <<"Command timed out after 5 minutes">>
LaunchErr == <<"OSError: subprocess">>

\* Faulty variant: subprocess.run without the timeout, on a terraform that
\* waits for input: it does not come back.
Outcomes_Hang == {"error"}

\* What subprocess.run can do: exit 0, exit non-zero, exceed the timeout,
\* or fail to start.
Outcomes == {"exit0", "exit1", "timeout", "error"}

_run_terraform_command(command, outcome) ==
    CASE outcome = "exit0" ->
           [returncode |-> 0, stdout |-> Stdout(command), stderr |-> << >>]
      [] outcome = "exit1" ->
           [returncode |-> 1, stdout |-> Stdout(command), stderr |-> Stderr(command)]
      [] outcome = "timeout" ->
           [returncode |-> 1, stdout |-> << >>, stderr |-> TimeoutMsg]
      [] outcome = "error" ->
           [returncode |-> 1, stdout |-> << >>, stderr |-> LaunchErr]

Running(command, working_dir, auto_approve) ==
    [stage |-> command, cwd |-> working_dir, argv |-> Argv(command, auto_approve)]

\* ---- execute_terraform_command, lines 55-92 ----------------------------
Capitalize(command) ==
    CASE command = "plan" -> "Plan"
      [] command = "apply" -> "Apply"
      [] command = "destroy" -> "Destroy"
      [] OTHER -> command

\* Faulty variant: destroy is called without auto_approve=True.
AutoApprove_ApplyOnly(command) == command = "apply"

\* Lines 63-68: apply and destroy are called with auto_approve=True.
AutoApprove(command) == command \in {"apply", "destroy"}

\* Lines 90-92, the finally block: job.completed_at = utcnow(); db.commit()
\* of the attributes in s.
Finally(t, s) ==
    LET j == s.job IN
    IF Exists(j)
    THEN /\ db' = [db EXCEPT ![j] = Commit(@, s, FALSE, TRUE)]
         /\ pc' = [pc EXCEPT ![t] = "cleanup"]
         /\ sess' = [sess EXCEPT ![t] = s]
         /\ response' = NoAnswer
    ELSE Crash(t, "execute")

\* Faulty variant: the failure of the requested command leaves error_log
\* alone.
CommandDone_NoErrorLog(t, s, result) ==
    LET output_log == s.out
                        \o <<"=== Terraform ", Capitalize(s.command), " ===">>
                        \o result.stdout
    IN Finally(t, IF result.returncode = 0
                  THEN [s EXCEPT !.status = COMPLETED, !.output_log = output_log,
                                 !.result = result]
                  ELSE [s EXCEPT !.status = FAILED, !.output_log = output_log,
                                 !.result = result])

\* Lines 72-83: the requested command has ended with `result`.
CommandDone(t, s, result) ==
    LET output_log == s.out
                        \o <<"=== Terraform ", Capitalize(s.command), " ===">>
                        \o result.stdout
    IN Finally(t, IF result.returncode = 0
                  THEN [s EXCEPT !.status = COMPLETED, !.output_log = output_log,
                                 !.result = result]
                  ELSE [s EXCEPT !.status = FAILED, !.output_log = output_log,
                                 !.error_log = result.stderr, !.result = result])

\* Lines 62-70: start the requested command.  subprocess.run starts the
\* process in the job directory; without the directory it raises and no
\* process exists.
Command(t, s) ==
    IF s.command \notin {"plan", "apply", "destroy"}
    THEN /\ Finally(t, Except(s, <<"Unknown command: ", s.command>>))
         /\ proc' = [proc EXCEPT ![t] = NoProc]
    ELSE IF job_dir(s.job) \in dirs
    THEN /\ proc' = [proc EXCEPT ![t] =
                        Running(s.command, job_dir(s.job), AutoApprove(s.command))]
         /\ pc' = [pc EXCEPT ![t] = "command_running"]
         /\ sess' = [sess EXCEPT ![t] = s]
         /\ response' = NoAnswer
         /\ UNCHANGED db
    ELSE /\ CommandDone(t, s, _run_terraform_command(s.command, "error"))
         /\ proc' = [proc EXCEPT ![t] = NoProc]

\* Lines 56-60: terraform init has ended with `result`.
InitDone(t, result) ==
    IF result.returncode # 0
    THEN /\ Finally(t, Except([sess[t] EXCEPT !.result = result],
                               <<"Terraform init failed: ">> \o result.stderr))
         /\ proc' = [proc EXCEPT ![t] = NoProc]
    ELSE Command(t, [sess[t] EXCEPT !.out = <<"=== Terraform Init ===">> \o result.stdout,
                                    !.result = result])

\* Line 56: start terraform init.
execute_terraform_command_init(t) ==
    /\ pc[t] = "init"
    /\ IF job_dir(sess[t].job) \in dirs
       THEN /\ proc' = [proc EXCEPT ![t] = Running("init", job_dir(sess[t].job), FALSE)]
            /\ pc' = [pc EXCEPT ![t] = "init_running"]
            /\ response' = NoAnswer
            /\ UNCHANGED <<db, sess>>
       ELSE InitDone(t, _run_terraform_command("init", "error"))
    /\ UNCHANGED <<nextId, dirs, files>>

\* terraform init ends; on exit code 0 the requested command starts, else the
\* failure is committed.
execute_terraform_command_init_done(t) ==
    /\ pc[t] = "init_running"
    /\ \E outcome \in Outcomes \ {"error"} :
          InitDone(t, _run_terraform_command("init", outcome))
    /\ UNCHANGED <<nextId, dirs, files>>

\* The requested command ends and its result is committed.
execute_terraform_command_command_done(t) ==
    /\ pc[t] = "command_running"
    /\ \E outcome \in Outcomes \ {"error"} :
          CommandDone(t, sess[t], _run_terraform_command(sess[t].command, outcome))
    /\ proc' = [proc EXCEPT ![t] = NoProc]
    /\ UNCHANGED <<nextId, dirs, files>>

\* The finally block after a failure of lines 36-46.
execute_terraform_command_finally(t) ==
    /\ pc[t] = "finally"
    /\ Finally(t, sess[t])
    /\ UNCHANGED <<nextId, dirs, files, proc>>

\* ---- execute_terraform_command, lines 94-101: clean-up and return ------
execute_terraform_command_cleanup(t) ==
    /\ pc[t] = "cleanup"
    /\ LET j == sess[t].job IN
       /\ IF job_dir(j) \in dirs
          THEN \E removed \in BOOLEAN :
                  IF removed
                  THEN /\ dirs' = dirs \ {job_dir(j)}
                       /\ files' = [files EXCEPT ![job_dir(j)] = NoFile]
                  ELSE UNCHANGED <<dirs, files>>
          ELSE UNCHANGED <<dirs, files>>
       /\ response' = IF Exists(j)
                      THEN Answer("execute", j, "returned", db[j].status)
                      ELSE Answer("execute", j, "ServerError", "none")
    /\ pc' = [pc EXCEPT ![t] = "idle"]
    /\ sess' = [sess EXCEPT ![t] = NoSess]
    /\ UNCHANGED <<db, nextId, proc>>

\* ---- cancel_terraform_job ----------------------------------------------
\* Faulty variant: only a COMPLETED job is refused.
CanCancel_NotCompleted(st) == st # COMPLETED

\* Line 380: `if job.status not in [PENDING, RUNNING]` raises the 400.
CanCancel(st) == st \in {PENDING, RUNNING}

\* Lines 378-384.
cancel_terraform_job(t, j) ==
    /\ pc[t] = "idle"
    /\ IF ~get_terraform_job(j, None)
       THEN /\ response' = Answer("cancel", j, "NotFound", "none")
            /\ UNCHANGED <<pc, sess>>
       ELSE IF ~CanCancel(db[j].status)
       THEN /\ response' = Answer("cancel", j, "InvalidState", db[j].status)
            /\ UNCHANGED <<pc, sess>>
       ELSE /\ pc' = [pc EXCEPT ![t] = "cancel_commit"]
            /\ sess' = [sess EXCEPT ![t] = Load(j)]
            /\ response' = Answer("cancel", j, "accepted", db[j].status)
    /\ UNCHANGED <<db, nextId, dirs, files, proc>>

\* Lines 386-393.
cancel_terraform_job_commit(t) ==
    /\ pc[t] = "cancel_commit"
    /\ LET j == sess[t].job IN
       IF Exists(j)
       THEN /\ db' = [db EXCEPT ![j] =
                        Commit(@, [sess[t] EXCEPT !.status = CANCELLED], FALSE, TRUE)]
            /\ pc' = [pc EXCEPT ![t] = "idle"]
            /\ sess' = [sess EXCEPT ![t] = NoSess]
            /\ response' = Answer("cancel", j, "returned", db'[j].status)
            /\ cancelled_from' = [cancelled_from EXCEPT ![j] = sess[t].read]
       ELSE Crash(t, "cancel") /\ UNCHANGED cancelled_from
    /\ UNCHANGED <<nextId, dirs, files, proc>>

\* ---- update_terraform_job ----------------------------------------------
update_terraform_job(j, job_data) ==
    /\ IF get_terraform_job(j, None)
       THEN /\ db' = [db EXCEPT ![j] = Commit(@, job_data, FALSE, FALSE)]
            /\ response' = Answer("update", j, "returned", db'[j].status)
       ELSE /\ response' = Answer("update", j, "NotFound", "none")
            /\ UNCHANGED db
    /\ UNCHANGED <<nextId, dirs, files, pc, sess, proc>>

\* ---- delete_terraform_job ----------------------------------------------
\* Faulty variant: db.delete(job) without the commit.
delete_terraform_job_NoCommit(j) ==
    /\ IF get_terraform_job(j, None)
       THEN response' = Answer("delete", j, "deleted", "none")
       ELSE response' = Answer("delete", j, "NotFound", "none")
    /\ UNCHANGED <<db, nextId, dirs, files, pc, sess, proc>>

\* Lines 407-410.
delete_terraform_job(j) ==
    /\ IF get_terraform_job(j, None)
       THEN /\ db' = [i \in DOMAIN db \ {j} |-> db[i]]
            /\ response' = Answer("delete", j, "deleted", "none")
       ELSE /\ response' = Answer("delete", j, "NotFound", "none")
            /\ UNCHANGED db
    /\ UNCHANGED <<nextId, dirs, files, pc, sess, proc>>

\* ---- the system --------------------------------------------------------
\* The request of a caller is served by a free thread; the threads are alike,
\* so it is the first one.
Free(t) == pc[t] = "idle" /\ \A u \in Threads : u < t => pc[u] # "idle"

\* A caller makes a request.
Call(op) ==
    /\ calls < MaxCalls /\ calls' = calls + 1 /\ op
    /\ UNCHANGED <<cancelled_from, model_configs, nextConfigId>>

\* A thread goes on with the operation it is in.
Step(op) == op /\ UNCHANGED <<calls, cancelled_from, model_configs, nextConfigId>>

\* The last step of cancel_terraform_job, which the history records.
Commits(op) == op /\ UNCHANGED <<calls, model_configs, nextConfigId>>

Next ==
    \/ \E req \in CreateRequests : Call(create_terraform_job(req.customer, req))
    \/ \E t \in Threads, j \in JobIds : Free(t) /\ Call(execute_terraform_job(t, j))
    \/ \E t \in Threads, req \in ApplyRequests :
          Free(t) /\ Call(apply_terraform(t, req.customer, req))
    \/ \E t \in Threads : Step(apply_terraform_execute(t))
    \/ \E t \in Threads : Step(execute_terraform_command_prepare(t))
    \/ \E t \in Threads : Step(execute_terraform_command_running(t))
    \/ \E t \in Threads : Step(execute_terraform_command_init(t))
    \/ \E t \in Threads : Step(execute_terraform_command_init_done(t))
    \/ \E t \in Threads : Step(execute_terraform_command_command_done(t))
    \/ \E t \in Threads : Step(execute_terraform_command_finally(t))
    \/ \E t \in Threads : Step(execute_terraform_command_cleanup(t))
    \/ \E t \in Threads, j \in JobIds : Free(t) /\ Call(cancel_terraform_job(t, j))
    \/ \E t \in Threads : Commits(cancel_terraform_job_commit(t))
    \/ \E j \in JobIds, job_data \in UpdateBodies : Call(update_terraform_job(j, job_data))
    \/ \E j \in JobIds : Call(delete_terraform_job(j))

Spec == Init /\ [][Next]_vars

\* The steps of the execution attempt of thread t.
Engine(t) ==
    \/ Step(execute_terraform_command_prepare(t))
    \/ Step(execute_terraform_command_running(t))
    \/ Step(execute_terraform_command_init(t))
    \/ Step(execute_terraform_command_init_done(t))
    \/ Step(execute_terraform_command_command_done(t))
    \/ Step(execute_terraform_command_finally(t))
    \/ Step(execute_terraform_command_cleanup(t))

\* The request threads that are in an attempt do not all stand still: every
\* statement of execute_terraform_command returns, subprocess.run after at
\* most its 300 s.  The requests being finitely many, this is enough for
\* every attempt to end.
SpecFair == Spec /\ WF_vars(\E t \in Threads : Engine(t))

\* The operations the routes reach: update_terraform_job has no route.
Routed ==
    \/ \E req \in CreateRequests : Call(create_terraform_job(req.customer, req))
    \/ \E t \in Threads, j \in JobIds : Free(t) /\ Call(execute_terraform_job(t, j))
    \/ \E t \in Threads, req \in ApplyRequests :
          Free(t) /\ Call(apply_terraform(t, req.customer, req))
    \/ \E t \in Threads : Step(apply_terraform_execute(t))
    \/ \E t \in Threads : Step(execute_terraform_command_prepare(t))
    \/ \E t \in Threads : Step(execute_terraform_command_running(t))
    \/ \E t \in Threads : Step(execute_terraform_command_init(t))
    \/ \E t \in Threads : Step(execute_terraform_command_init_done(t))
    \/ \E t \in Threads : Step(execute_terraform_command_command_done(t))
    \/ \E t \in Threads : Step(execute_terraform_command_finally(t))
    \/ \E t \in Threads : Step(execute_terraform_command_cleanup(t))
    \/ \E t \in Threads, j \in JobIds : Free(t) /\ Call(cancel_terraform_job(t, j))
    \/ \E t \in Threads : Commits(cancel_terraform_job_commit(t))
    \/ \E j \in JobIds : Call(delete_terraform_job(j))

SpecRouted == Init /\ [][Routed]_vars

\* The job table on its own, for the queries that only read it: the rows
\* under the operations that insert, change and delete them.
Edit(op) ==
    /\ calls < MaxEdits /\ calls' = calls + 1 /\ op
    /\ UNCHANGED <<cancelled_from, model_configs, nextConfigId>>

JobTable ==
    \/ \E req \in CreateRequests : Edit(create_terraform_job(req.customer, req))
    \/ \E j \in JobIds, job_data \in UpdateBodies : Edit(update_terraform_job(j, job_data))
    \/ \E j \in JobIds : Edit(delete_terraform_job(j))

SpecJobTable == Init /\ [][JobTable]_vars

\* ---- model_service: the model configurations ---------------------------
ModelTypes == {"chat", "terraform", "both"}
ConfigIds == 1..MaxConfigs

\* Bodies of POST /models: ModelConfigCreate, is_active True when left out.
ModelConfigCreate == [name : {"a", "b"}, model_type : ModelTypes, is_active : BOOLEAN]

\* Bodies of PUT /models/{config_id}: a field left out is Unset.
ModelConfigUpdate ==
    [model_type : ModelTypes \cup {Unset}, is_active : {"true", "false", Unset}]

\* Lines 38-46 and 116-125: the active rows of the type other than `self`
\* (0 for none) are deactivated.
Deactivate(rows, model_type, self) ==
    [c \in DOMAIN rows |->
        IF c # self /\ rows[c].model_type = model_type /\ rows[c].is_active
        THEN [rows[c] EXCEPT !.is_active = FALSE]
        ELSE rows[c]]

\* Lines 29-54.
create_model_config(config_data) ==
    /\ nextConfigId <= MaxConfigs
    /\ IF \E c \in DOMAIN model_configs : model_configs[c].name = config_data.name
       THEN /\ response' = Answer("create_model_config", 0, "NameExists", "none")
            /\ UNCHANGED <<model_configs, nextConfigId>>
       ELSE /\ LET rows == IF config_data.is_active
                           THEN Deactivate(model_configs, config_data.model_type, 0)
                           ELSE model_configs
               IN model_configs' =
                     [c \in DOMAIN rows \cup {nextConfigId} |->
                         IF c = nextConfigId THEN config_data ELSE rows[c]]
            /\ nextConfigId' = nextConfigId + 1
            /\ response' = Answer("create_model_config", nextConfigId, "created", "none")

\* Lines 107-134: update_data holds the fields the body sets.
update_model_config(config_id, config_data) ==
    /\ IF config_id \notin DOMAIN model_configs
       THEN /\ response' = Answer("update_model_config", config_id, "NotFound", "none")
            /\ UNCHANGED model_configs
       ELSE /\ LET config == model_configs[config_id]
                   model_type == IF config_data.model_type = Unset
                                 THEN config.model_type ELSE config_data.model_type
                   rows == IF config_data.is_active = "true"
                           THEN Deactivate(model_configs, model_type, config_id)
                           ELSE model_configs
               IN model_configs' =
                     [rows EXCEPT ![config_id] =
                        [@ EXCEPT !.model_type = model_type,
                                  !.is_active = IF config_data.is_active = Unset
                                                THEN @ ELSE config_data.is_active = "true"]]
            /\ response' = Answer("update_model_config", config_id, "returned", "none")
    /\ UNCHANGED nextConfigId

\* Lines 145-148.
delete_model_config(config_id) ==
    /\ IF config_id \notin DOMAIN model_configs
       THEN /\ response' = Answer("delete_model_config", config_id, "NotFound", "none")
            /\ UNCHANGED model_configs
       ELSE /\ model_configs' = [c \in DOMAIN model_configs \ {config_id} |-> model_configs[c]]
            /\ response' = Answer("delete_model_config", config_id, "deleted", "none")
    /\ UNCHANGED nextConfigId

\* model_factory.get_active_model: the rows .first() may return, the active
\* rows of type "both" when there are any, else the active rows of the type;
\* None when the set is empty.
get_active_model(model_type) ==
    LET active(type) == {c \in DOMAIN model_configs :
                            model_configs[c].model_type = type /\ model_configs[c].is_active}
    IN IF active("both") # {} THEN active("both") ELSE active(model_type)

\* ---- generate_terraform_code ------------------------------------------
\* Text is a sequence of characters; NoCode is Python's None.
NoCode == <<"None">>
Whitespace == {" ", "\n"}

RECURSIVE lstrip(_)
lstrip(text) ==
    IF text # << >> /\ Head(text) \in Whitespace THEN lstrip(Tail(text)) ELSE text

RECURSIVE rstrip(_)
rstrip(text) ==
    IF text # << >> /\ text[Len(text)] \in Whitespace
    THEN rstrip(SubSeq(text, 1, Len(text) - 1)) ELSE text

\* str.strip()
strip(text) == rstrip(lstrip(text))

\* The requests POST /terraform/generate receives.
GenerateRequests == {[provider |-> "aws", project_name |-> Demo]}

\* What the environment of the AI generator does: the query of the active
\* model raises; the model cannot be built; the call of the model raises;
\* the model answers with nothing; the model answers with a content.
Contents == {<< >>, <<" ", "\n">>, <<"t", "f">>, <<"\n", "t", "f", " ">>}
AIOutcomes ==
    [kind : {"query_error", "create_error", "invoke_error", "no_response"},
     content : {<< >>}]
      \cup [kind : {"content"}, content : Contents]

\* nodes.generate_node, lines 98-108: the content of the response, stripped.
generate_node(outcome) ==
    IF outcome.kind = "content" THEN strip(outcome.content) ELSE NoCode

Raised == [raised |-> TRUE, code |-> NoCode]
Returned(code) == [raised |-> FALSE, code |-> code]

\* ai.terraform_generator.generate_terraform_code, lines 57-114: the query of
\* get_active_model is outside the try block, the rest inside.
ai_generate_terraform(outcome) ==
    IF outcome.kind = "query_error" THEN Raised
    ELSE IF get_active_model("terraform") = {} THEN Returned(NoCode)
    ELSE IF outcome.kind \in {"create_error", "invoke_error"} THEN Returned(NoCode)
    ELSE Returned(generate_node(outcome))

\* terraform_service._generate_template_code: the text starts with the
\* comment line of the project name.
_generate_template_code(request) == <<"#", " ">> \o request.project_name \o <<"\n">>

\* Faulty variant: `if ai_code is not None`.
TruthyText_NotNone(ai_code) == ai_code # NoCode

\* Line 32, `if ai_code:`.
TruthyText(ai_code) == ai_code # NoCode /\ ai_code # << >>

\* terraform_service.generate_terraform_code, lines 18-40; the answer records
\* what the AI generator did.
generate_terraform_code(request, outcome) ==
    /\ LET ai == ai_generate_terraform(outcome)
       IN response' =
             [op |-> "generate", job |-> 0, kind |-> "returned", status |-> "none",
              request |-> request, ai |-> ai,
              code |-> IF ~ai.raised /\ TruthyText(ai.code)
                       THEN ai.code ELSE _generate_template_code(request)]
    /\ UNCHANGED <<model_configs, nextConfigId>>

\* An operation of the model configurations or the code generation leaves
\* the jobs alone.
Admin(op) ==
    op /\ UNCHANGED <<db, nextId, dirs, files, pc, sess, proc, calls, cancelled_from>>

Models ==
    \/ \E config_data \in ModelConfigCreate : Admin(create_model_config(config_data))
    \/ \E config_id \in ConfigIds, config_data \in ModelConfigUpdate :
          Admin(update_model_config(config_id, config_data))
    \/ \E config_id \in ConfigIds : Admin(delete_model_config(config_id))
    \/ \E request \in GenerateRequests, outcome \in AIOutcomes :
          Admin(generate_terraform_code(request, outcome))

SpecModels == Init /\ [][Models]_vars

\* ---- properties --------------------------------------------------------
Commands == {"plan", "apply", "destroy"}

\* The positions of a thread inside execute_terraform_command.
EnginePcs == {"prepare", "commit_running", "init", "init_running",
              "command_running", "finally", "cleanup"}

\* An execution attempt on job j is in flight.
InFlight(j) == \E t \in Threads : pc[t] \in EnginePcs /\ sess[t].job = j

\* C1: once a job's stored status is COMPLETED, FAILED or CANCELLED, no step
\* of execute, cancel or the engine changes it: of a racing cancel and
\* completion write, the second is a no-op.
C1_TerminalStatusNeverChanges ==
    [][\A j \in DOMAIN db :
          (db[j].status \in Terminal /\ j \in DOMAIN db')
             => db'[j].status = db[j].status]_vars

\* C2: when cancel has been called on a RUNNING job, the workspace directory
\* is gone at the moment cancel returns, and the status the job ends with,
\* once no attempt is in flight, is CANCELLED.
C2_CancelRunningEndsCancelled ==
    \A j \in JobIds :
       cancelled_from[j] = RUNNING =>
          /\ response = Answer("cancel", j, "returned", CANCELLED) => job_dir(j) \notin dirs
          /\ (Exists(j) /\ ~InFlight(j)) => db[j].status = CANCELLED

\* C3: in every committed state of every job, completed_at is set if and only
\* if the status is COMPLETED, FAILED or CANCELLED.
C3_CompletedAtIffTerminal ==
    \A j \in DOMAIN db :
       (db[j].completed_at # NullTime) <=> (db[j].status \in Terminal)

\* C4: in every committed state of every job, started_at is set if and only
\* if the status is not PENDING.
C4_StartedAtIffNotPending ==
    \A j \in DOMAIN db :
       (db[j].started_at # NullTime) <=> (db[j].status # PENDING)

\* C5: every job starts PENDING and every change of a stored status is one of
\* PENDING->RUNNING, RUNNING->COMPLETED, RUNNING->FAILED, PENDING->CANCELLED,
\* RUNNING->CANCELLED.
LegalTransitions ==
    { <<PENDING, RUNNING>>, <<RUNNING, COMPLETED>>, <<RUNNING, FAILED>>,
      <<PENDING, CANCELLED>>, <<RUNNING, CANCELLED>> }

C5_OnlyLegalTransitions ==
    [][\A j \in DOMAIN db' :
          IF j \in DOMAIN db
          THEN \/ db'[j].status = db[j].status
               \/ <<db[j].status, db'[j].status>> \in LegalTransitions
          ELSE db'[j].status = PENDING]_vars

\* A step in which a caller calls `op` on the stored job j.
Calls(op, j) ==
    /\ calls' = calls + 1
    /\ response'.op = op
    /\ response'.job = j
    /\ Exists(j)

\* C6: cancel on a job whose stored status is COMPLETED, FAILED or CANCELLED
\* fails with the invalid-state error naming that status, and changes
\* nothing: not the record, not a handler, not a workspace.
C6_CancelTerminalRejected ==
    [][\A j \in JobIds :
          (Calls("cancel", j) /\ db[j].status \in Terminal)
             => /\ response' = Answer("cancel", j, "InvalidState", db[j].status)
                /\ UNCHANGED <<db, dirs, files, pc, sess, proc>>]_vars

C6_Witness ==
    /\ response.op = "cancel"
    /\ response.kind = "InvalidState"
    /\ response.status \in Terminal
    /\ Exists(response.job)
    /\ db[response.job].status = response.status

\* C7: execute on a job whose stored status is not PENDING fails with the
\* invalid-state error, leaves the record unchanged, creates no workspace
\* directory and starts no subprocess.
C7_ExecuteNonPendingRejected ==
    [][\A j \in JobIds :
          (Calls("execute", j) /\ db[j].status # PENDING)
             => /\ response' = Answer("execute", j, "InvalidState", db[j].status)
                /\ UNCHANGED <<db, dirs, files, pc, sess, proc>>]_vars

C7_Witness ==
    /\ response.op = "execute"
    /\ response.kind = "InvalidState"
    /\ response.status # PENDING
    /\ Exists(response.job)
    /\ db[response.job].status = response.status

\* C8: a cancel called on a PENDING job writes CANCELLED with completed_at
\* on a job that never started (it does not pass through RUNNING), and no
\* execute called after that cancel is accepted.
C8_CancelPendingIsFinal ==
    [][\A t \in Threads :
          /\ (pc[t] = "cancel_commit" /\ pc'[t] = "idle" /\ sess[t].read = PENDING
                /\ Exists(sess[t].job))
               => /\ db[sess[t].job].started_at = NullTime
                  /\ db'[sess[t].job].status = CANCELLED
                  /\ db'[sess[t].job].completed_at # NullTime
          /\ (pc[t] = "idle" /\ pc'[t] = "prepare")
               => cancelled_from[sess'[t].job] # PENDING]_vars

\* C9: create persists no job whose command is not plan, apply or destroy or
\* whose config carries no non-empty code: no stored job has either.
C9_StoredJobsAreValid ==
    \A j \in DOMAIN db :
       /\ db[j].command \in Commands
       /\ db[j].terraform_config.code # ""

\* An attempt of thread t on a job whose config has no code.
NoCodeAttempt(t) == pc[t] \in EnginePcs /\ sess[t].code = ""

\* The step in which thread t commits the result of its attempt.
CommitsResult(t) ==
    /\ pc[t] \in {"finally", "init_running", "command_running", "init"}
    /\ pc'[t] = "cleanup"

Stages == {"init"} \cup Commands

\* The step in which thread t commits the result of its attempt after the
\* subprocess of `stage` has ended as `outcome`.
StageEnds(t, stage, outcome) ==
    /\ pc[t] \in {"init_running", "command_running"}
    /\ pc'[t] = "cleanup"
    /\ proc[t].stage = stage
    /\ sess'[t].result = _run_terraform_command(stage, outcome)

Contains(text, msg) ==
    \E i \in 1..Len(text) :
       /\ i + Len(msg) - 1 <= Len(text)
       /\ SubSeq(text, i, i + Len(msg) - 1) = msg

\* C12: when a stage exceeds its timeout, the attempt commits FAILED with the
\* timeout message in error_log, and the job directory is gone when the
\* attempt returns.
C12_TimeoutFailsAndCleansUp ==
    [][\A t \in Threads :
          /\ (\E stage \in Stages : StageEnds(t, stage, "timeout"))
                => /\ db'[sess[t].job].status = FAILED
                   /\ Contains(db'[sess[t].job].error_log, TimeoutMsg)
          /\ (pc[t] = "cleanup" /\ pc'[t] = "idle" /\ sess[t].result.stderr = TimeoutMsg)
                => job_dir(sess[t].job) \notin dirs']_vars

\* output_log of an attempt whose init and requested command both exit 0.
Sections(command) ==
    <<"=== Terraform Init ===">> \o Stdout("init")
      \o <<"=== Terraform ", Capitalize(command), " ===">> \o Stdout(command)

\* C13: when init and the requested command both exit 0, the attempt commits
\* COMPLETED with an output_log made of the init section followed by the
\* section of the command, each with the stdout of its stage, and the job's
\* error_log is empty.
C13_SuccessLogs ==
    [][\A t \in Threads, stage \in Commands :
          (pc[t] = "command_running" /\ StageEnds(t, stage, "exit0")) =>
             /\ db'[sess[t].job].status = COMPLETED
             /\ db'[sess[t].job].output_log = Sections(stage)
             /\ db'[sess[t].job].error_log = NullText]_vars

\* Thread t takes a step of its execution attempt.
EngineStep(t) == pc[t] \in EnginePcs /\ pc'[t] # pc[t]

\* The job directory of job k or its main.tf changes.
Touched(k) ==
    \/ (job_dir(k) \in dirs) # (job_dir(k) \in dirs')
    \/ files'[job_dir(k)] # files[job_dir(k)]

\* C14: the job directories of distinct jobs whose attempts are in flight are
\* distinct paths, every subprocess runs in the directory of its own job, and
\* the directory of a job is made, written and removed only by a step of an
\* attempt on that job.
C14_DisjointWorkspaces ==
    [][/\ \A t, u \in Threads :
             (pc[t] \in EnginePcs /\ pc[u] \in EnginePcs /\ sess[t].job # sess[u].job)
                => job_dir(sess[t].job) # job_dir(sess[u].job)
       /\ \A t \in Threads :
             proc[t] # NoProc => proc[t].cwd = job_dir(sess[t].job)
       /\ \A k \in JobIds :
             Touched(k) => \E t \in Threads : EngineStep(t) /\ sess[t].job = k]_vars

C14_Witness ==
    \E t, u \in Threads :
       /\ pc[t] \in {"init_running", "command_running"}
       /\ pc[u] = "cleanup"
       /\ sess[t].job # sess[u].job
       /\ job_dir(sess[t].job) \in dirs
       /\ job_dir(sess[u].job) \notin dirs
       /\ files[job_dir(sess[t].job)] = sess[t].code

\* C15: in every state the job directory of a stored job exists if and only
\* if the stored status of the job is RUNNING.
C15_WorkspaceIffRunning ==
    \A j \in DOMAIN db : (job_dir(j) \in dirs) <=> (db[j].status = RUNNING)

\* Thread t leaves its execution attempt.
AttemptEnds(t) == pc[t] \in EnginePcs /\ pc'[t] = "idle"

\* C16: every way out of an execution attempt goes through the removal of
\* the job directory, and that step, whether the removal fails or not,
\* leaves the stored jobs as they are.
C16_TeardownOnEveryPath ==
    [][\A t \in Threads :
          AttemptEnds(t) => (pc[t] = "cleanup" /\ UNCHANGED db)]_vars

\* C17: an execute call that was accepted returns the job, with status
\* FAILED or COMPLETED and completed_at set; nothing is raised to the caller.
C17_ExecuteAlwaysReturnsJob ==
    [][\A t \in Threads :
          AttemptEnds(t) =>
             /\ response'.kind = "returned"
             /\ response'.status \in {FAILED, COMPLETED}
             /\ db'[sess[t].job].completed_at # NullTime]_vars

\* C18: the record of a job is not removed while its stored status is
\* RUNNING or an attempt on it is in flight, and no job directory exists for
\* a job whose record has been removed.
C18_NoDeleteWhileRunning ==
    [][\A j \in DOMAIN db :
          j \notin DOMAIN db' =>
             /\ db[j].status # RUNNING
             /\ ~InFlight(j)
             /\ job_dir(j) \notin dirs']_vars

\* The owner ids a caller of get_terraform_job can supply: none, 0, the
\* customers that create jobs, and a customer without jobs.
Owners == {None, 0, 1, 2, 3}

\* C19: get_terraform_job finds the job exactly when a job with that id is
\* stored and the owner id supplied, if one is supplied (0 included), is the
\* owner of the job; otherwise it raises the 404.
C19_GetChecksOwner ==
    \A j \in JobIds, owner_id \in Owners :
       get_terraform_job(j, owner_id)
          <=> (Exists(j) /\ (owner_id = None \/ db[j].owner = owner_id))

\* Job j is in a listing.
Listed(j) ==
    \/ j \in get_all_terraform_jobs_query
    \/ \E customer_id \in Owners \ {None}, status_filter \in JobStatus \cup {"none"} :
          j \in get_user_terraform_jobs_query(customer_id, status_filter)

\* Job j has been stored and removed.
Removed(j) == j < nextId /\ ~Exists(j)

\* C20: delete of a stored job removes its record: from the return of delete
\* on, get_terraform_job raises the 404 for it and no listing has it, whatever
\* an attempt in flight does; delete of an id that is not stored raises the 404
\* and changes nothing.
C20_DeleteRemovesForever ==
    [][\A j \in JobIds :
          /\ (calls' = calls + 1 /\ response'.op = "delete" /\ response'.job = j)
                => IF Exists(j)
                   THEN response'.kind = "deleted" /\ Removed(j)'
                   ELSE /\ response'.kind = "NotFound"
                        /\ UNCHANGED <<db, nextId, dirs, files, pc, sess, proc>>
          /\ Removed(j)
                => /\ Removed(j)'
                   /\ \A owner_id \in Owners : ~get_terraform_job(j, owner_id)'
                   /\ ~Listed(j)']_vars

\* An attempt has tried to commit to a removed record, which stays removed.
C20_Witness ==
    /\ response.op = "execute"
    /\ response.kind = "ServerError"
    /\ Removed(response.job)

\* C21: when a cancel of the RUNNING job has been committed while init is
\* running, before the requested command has started, the attempt does not
\* start the requested command, and the result it reports is CANCELLED.
C21_CancelBeforeStageSkipsIt ==
    [][\A t \in Threads :
          (pc[t] = "init_running" /\ cancelled_from[sess[t].job] = RUNNING)
             => /\ pc'[t] # "command_running"
                /\ pc'[t] = "cleanup" => db'[sess[t].job].status = CANCELLED]_vars

C25_ApplyAnswersPendingRunningCompleted ==
    [][\A t \in Threads :
          (AttemptEnds(t) /\ sess[t].route = "apply")
             => /\ response'.kind = "returned"
                /\ response'.status \in {PENDING, RUNNING, COMPLETED}]_vars

\* The arguments of the listings: the customers, a status or none, and skip
\* and limit up to the number of jobs.
Customers == Owners \ {None, 0}
Filters == JobStatus \cup {"none"}
Pages == 0..MaxJobs

\* `list` is the page (skip, limit) of `rows` by creation time, newest first:
\* its entries are rows, as many as are left after skip and at most limit,
\* and before its i-th entry come exactly skip + i - 1 newer rows.
IsPage(list, rows, skip, limit) ==
    LET left == IF Cardinality(rows) > skip THEN Cardinality(rows) - skip ELSE 0
    IN /\ Len(list) = IF left < limit THEN left ELSE limit
       /\ \A i \in 1..Len(list) :
             /\ list[i] \in rows
             /\ Cardinality({k \in rows : db[k].created_at > db[list[i]].created_at})
                   = skip + i - 1

C24_AIFirstThenTemplate ==
    response.op = "generate" =>
       LET produced == /\ ~response.ai.raised
                       /\ response.ai.code # NoCode
                       /\ Len(response.ai.code) > 0
       IN /\ response.kind = "returned"
          /\ produced <=> response.code = response.ai.code
          /\ ~produced => response.code = _generate_template_code(response.request)

\* An active model answered with a text, and that text, stripped, came back.
C24_Witness ==
    /\ response.op = "generate"
    /\ get_active_model("terraform") # {}
    /\ response.ai = Returned(<<"t", "f">>)
    /\ response.code = <<"t", "f">>

\* C30: at most one model configuration of a model_type is active.
C30_OneActivePerType ==
    \A model_type \in ModelTypes :
       Cardinality({c \in DOMAIN model_configs :
                       /\ model_configs[c].model_type = model_type
                       /\ model_configs[c].is_active}) <= 1

\* Thread t starts the subprocess of a stage.
Starts(t, stages) == proc'[t].stage \in stages /\ proc[t].stage \notin stages

\* C26: an attempt starts terraform init once, before anything else has run
\* in it; it starts the requested command only when init has just ended
\* with exit code 0; and when init has not ended with exit code 0 no
\* subprocess follows and the output_log of the job is empty.  The local
\* output_log (`out`) is assigned only after init has ended with exit code 0.
C26_InitOnceThenStage ==
    [][\A t \in Threads :
          /\ Starts(t, {"init"}) => pc[t] = "init" /\ sess[t].result = NoResult
          /\ Starts(t, Commands)
                => /\ pc[t] = "init_running"
                   /\ sess[t].result = NoResult
                   /\ sess'[t].result.returncode = 0
          /\ (pc[t] \in {"init", "init_running"} /\ pc'[t] = "cleanup"
                 /\ sess'[t].out = NullText)
                => /\ proc'[t] = NoProc
                   /\ db'[sess[t].job].output_log = NullText]_vars

\* C27: the subprocess of a stage has -auto-approve on its command line
\* exactly when the stage is apply or destroy.
C27_AutoApproveIffApplyOrDestroy ==
    \A t \in Threads :
       proc[t] # NoProc
          => ((\E i \in DOMAIN proc[t].argv : proc[t].argv[i] = "-auto-approve")
                 <=> proc[t].stage \in {"apply", "destroy"})

\* terraform destroy runs, with the flag.
C27_Witness ==
    \E t \in Threads :
       /\ proc[t].stage = "destroy"
       /\ proc[t].argv = <<"terraform", "destroy", "-auto-approve", "-no-color">>

\* C28: while the subprocess of a stage runs, the directory of its job
\* exists and main.tf in it holds the code of the job.
C28_WorkspaceKeptWhileStageRuns ==
    \A t \in Threads :
       proc[t] # NoProc
          => /\ job_dir(sess[t].job) \in dirs
             /\ files[job_dir(sess[t].job)] = sess[t].code

\* C29: an execute call passes the PENDING test of a job only when no
\* attempt on that job is in flight, so that one attempt runs init.
C29_ExecutedAtMostOnce ==
    [][\A t \in Threads :
          (pc'[t] = "prepare" /\ pc[t] # "prepare") => ~InFlight(sess'[t].job)]_vars
====
